---- MODULE Spec2Model ----
(***************************************************************************)
(* Version-Equalizer: the FileProcessor worker of version_equalizer.pyw.   *)
(* The four operations (scan_folder, compare_versions, create_zip,         *)
(* equalize_versions) are modelled over an abstract file system.  A        *)
(* relative path ("a/b") is the sequence of its name components            *)
(* (<<"a", "b">>); a tree is a record of whether its root exists, of its   *)
(* files (path -> content) and of its directories.                         *)
(***************************************************************************)
EXTENDS Integers, Sequences, FiniteSets, TLC

\* ------------------------------------------------------------------ bounds
\* File contents are 1..MaxContent.
MaxContent == 2
\* Longest snapshot (number of records) given to compare_versions directly.
MaxSnapLen == 2
\* Number of equalize_versions calls made on one current tree.
MaxRuns == 2
\* Number of files added to or removed from a folder while scan_folder is
\* between its counting walk and its hashing walk.
MaxChanges == 1

\* ------------------------------------------------------------------ paths
\* version_equalizer.pyw:153, the quarantine directory name.
QuarantineDir == "ExtraFiles_VersionEqualizer"

Contents == 1..MaxContent

\* The order in which a directory's entries are listed (by name).
NameOrder == <<QuarantineDir, "a", "b">>

SeqRange(s) == {s[i] : i \in 1..Len(s)}

\* The file paths a tree may hold before the program has touched it.
TreePaths == {<<"a">>, <<"b">>, <<"a", "b">>, <<QuarantineDir, "a">>}

\* os.path.dirname and os.path.basename of a relative path.
Dirname(p) == SubSeq(p, 1, Len(p) - 1)
Basename(p) == p[Len(p)]

\* The proper, non-empty ancestors of a path.
Ancestors(p) == {SubSeq(p, 1, k) : k \in 1..(Len(p) - 1)}

IsPrefix(d, p) == Len(d) <= Len(p) /\ SubSeq(p, 1, Len(d)) = d

\* hashlib.md5 of a file's bytes, hex-encoded: a digest string per content
\* (distinct contents of the model have distinct digests).
HexDigits == <<"0", "1", "2", "3", "4", "5", "6", "7", "8", "9">>
Md5Hex(c) == "md5:" \o HexDigits[(c % 10) + 1]

Hashes == {Md5Hex(c) : c \in Contents}

\* ------------------------------------------------------------------ trees
\* A directory tree on disk.  files maps each regular file to its content,
\* dirs holds every directory below the root.
EmptyFiles == [p \in {} |-> 0]

MissingTree == [root |-> FALSE, files |-> EmptyFiles, dirs |-> {}]

IsFile(t, p) == p \in DOMAIN t.files
IsDir(t, p) == IF p = <<>> THEN t.root ELSE p \in t.dirs
\* os.path.exists
Exists(t, p) == IsFile(t, p) \/ IsDir(t, p)

\* A set of files is a tree when no file is an ancestor of another.
Consistent(F) == \A p, q \in F : p \notin Ancestors(q)

TreeOf(f) ==
  [root |-> TRUE, files |-> f, dirs |-> UNION {Ancestors(p) : p \in DOMAIN f}]

\* Every tree over TreePaths, and the case of a root that does not exist.
Trees ==
  {TreeOf(f) : f \in UNION {[F -> Contents] :
                             F \in {G \in SUBSET TreePaths : Consistent(G)}}}
    \cup {MissingTree}

Restrict(f, D) == [x \in D |-> f[x]]

\* The outcome of a file-system call: the tree it leaves, and whether it raised.
Ok(t) == [ok |-> TRUE, tree |-> t]
Raise(t) == [ok |-> FALSE, tree |-> t]

\* os.makedirs(d, exist_ok=True): creates d and its missing ancestors (the
\* root included); raises when d or one of its ancestors is a regular file.
MakeDirs(t, d) ==
  IF \E q \in Ancestors(d) \cup {d} : q # <<>> /\ IsFile(t, q)
  THEN Raise(t)
  ELSE Ok([t EXCEPT !.root = TRUE,
                    !.dirs = @ \cup ((Ancestors(d) \cup {d}) \ {<<>>})])

\* Sorts a set of names by NameOrder.
RECURSIVE SortNames(_, _)
SortNames(S, i) ==
  IF i > Len(NameOrder) THEN <<>>
  ELSE (IF NameOrder[i] \in S THEN <<NameOrder[i]>> ELSE <<>>) \o SortNames(S, i + 1)

RECURSIVE ConcatAll(_)
ConcatAll(ss) == IF ss = <<>> THEN <<>> ELSE Head(ss) \o ConcatAll(Tail(ss))

\* os.walk(folder), top-down: the files of a directory, then its
\* subdirectories in turn.  The result is the sequence of file paths visited.
RECURSIVE Walk(_, _)
Walk(t, d) ==
  LET fileNames == {Basename(p) : p \in {q \in DOMAIN t.files : Dirname(q) = d}}
      dirNames == {Basename(p) : p \in {q \in t.dirs : Dirname(q) = d}}
      here == SortNames(fileNames, 1)
      subs == SortNames(dirNames, 1)
  IN  [i \in 1..Len(here) |-> Append(d, here[i])]
        \o ConcatAll([i \in 1..Len(subs) |-> Walk(t, Append(d, subs[i]))])

\* ------------------------------------------------------------ snapshots
SnapPaths == {<<"a">>, <<"b">>, <<"a", "b">>}

FileRecords == [fileName : SnapPaths, hash : Hashes]

RECURSIVE SeqsUpTo(_, _)
SeqsUpTo(S, n) ==
  IF n = 0 THEN {<<>>}
  ELSE LET shorter == SeqsUpTo(S, n - 1)
       IN  shorter \cup {Append(s, x) : s \in {t \in shorter : Len(t) = n - 1}, x \in S}

UniquePaths(snap) ==
  \A i, j \in 1..Len(snap) : snap[i].fileName = snap[j].fileName => i = j

\* ------------------------------------------------------------ variables
VARIABLES
  toTree,     \* the target tree (to_folder)
  fromTree,   \* the current tree (from_folder)
  toSnap,     \* json_data["to_version"]["files"]
  fromSnap,   \* json_data["from_version"]["files"]
  plan,       \* convert_data, the plan as persisted in convert.json
  zip,        \* the archive file version_update.zip
  result,     \* the terminal notification of the last FileProcessor run
  pc,         \* the operation the pipeline is at
  runs,       \* number of equalize_versions calls made so far
  preTree,    \* history: the current tree before the last equalize_versions call
  firstRun,   \* history: the tree and outcome of the first equalize_versions call
  steps,      \* history: the sub-steps the last equalize_versions call reached
  toFolder,   \* where to_folder lies in the file system (<<>> is its root)
  unreadable, \* the files of the scanned folder that cannot be opened
  changes,    \* number of files added or removed during the running scan
  total_files,\* scan_folder's total_files
  worker,     \* the FileProcessor thread: "idle" or "running"
  emitted,    \* the terminal signals the last started run has emitted
  progress_updated,   \* the values the last started run emitted on progress_updated
  status_updated      \* the messages the last started run emitted on status_updated

vars == <<toTree, fromTree, toSnap, fromSnap, plan, zip, result, pc, runs,
          preTree, firstRun, steps, toFolder, unreadable, changes, total_files,
          worker, emitted, progress_updated, status_updated>>

\* What the environment fixes for a run, and what a run reports as it goes.
setting == <<toFolder, unreadable>>
history == <<runs, preTree, firstRun, steps>>

\* The terminal notification of FileProcessor.run: finished_signal with
\* the result dict, or error_signal with the exception's text.
NoResult == [kind |-> "none"]
Finished(op, value) == [kind |-> "finished", op |-> op, value |-> value]
Failed(op, message) == [kind |-> "error", op |-> op, message |-> message]

\* Terminal with a fault: error_signal is followed by finished_signal.
TerminalBoth(r) ==
  IF r.kind = "finished" THEN <<"finished_signal">>
  ELSE <<"error_signal", "finished_signal">>

\* Lines 46-48: the one signal run() emits when the operation has returned
\* or raised.
Terminal(r) ==
  IF r.kind = "finished" THEN <<"finished_signal">> ELSE <<"error_signal">>

\* worker.start(): the thread of a new FileProcessor begins run().  An
\* equalize is started at most MaxRuns times.
StartAt(stages) ==
  /\ worker = "idle"
  /\ pc \in stages
  /\ pc \in {"equalize", "equalized"} => runs < MaxRuns
  /\ worker' = "running"
  /\ emitted' = <<>>
  /\ progress_updated' = <<>>
  /\ status_updated' = <<>>
  /\ UNCHANGED <<toTree, fromTree, toSnap, fromSnap, plan, zip, result, pc,
                 history, setting, changes, total_files>>

Start == StartAt({"scan_to", "scan_from", "compare", "zip", "equalize", "equalized"})

\* The end of run(): the terminal signal goes out and the thread ends.
Ends(r) ==
  /\ result' = r
  /\ emitted' = Terminal(r)
  /\ worker' = "idle"

\* ----------------------------------------------------------- scan_folder
\* NoneUnopenable is Unopenable with a fault: every file is taken as open.
NoneUnopenable(unread, p) == FALSE

\* Line 69: open(file_path, "rb") raises for this file.
Unopenable(unread, p) == p \in unread

\* Line 79: int((processed / total_files) * 100).  For the totals of the
\* model the float expression equals the integer quotient.
Percent(done, total) == (done * 100) \div total

\* Lines 62-86 for the walked files in turn.  A file that cannot be opened
\* raises before its record is appended and is passed over (the except
\* clause only prints); with total_files = 0 the division raises after the
\* record is appended, and neither signal of that file goes out.
RECURSIVE ScanLoop(_, _, _, _, _)
ScanLoop(t, paths, unread, total, acc) ==
  IF paths = <<>> THEN acc
  ELSE LET p == Head(paths)
           hashed == [acc EXCEPT
                        !.files = Append(@, [fileName |-> p, hash |-> Md5Hex(t.files[p])]),
                        !.processed = @ + 1]
           told == [hashed EXCEPT
                      !.progress = Append(@, Percent(hashed.processed, total)),
                      !.status = Append(@, <<"Processing", p>>)]
       IN  IF Unopenable(unread, p) THEN ScanLoop(t, Tail(paths), unread, total, acc)
           ELSE ScanLoop(t, Tail(paths), unread, total, IF total = 0 THEN hashed ELSE told)

\* Line 56: the counting walk.
CountFiles(t) == Cardinality(DOMAIN t.files)

\* Lines 55-88 of scan_folder after the counting walk: file_data and what
\* was emitted on the way.
scan_folder(t, unread, total) ==
  ScanLoop(t, Walk(t, <<>>), unread, total,
           [files |-> <<>>, processed |-> 0, progress |-> <<>>, status |-> <<>>])

\* scan_folder up to line 59: the check of the folder and the counting walk.
CountTo ==
  /\ pc = "scan_to" /\ worker = "running"
  /\ IF toTree.root
     THEN /\ total_files' = CountFiles(toTree)
          /\ status_updated' = Append(status_updated, <<"Scanning files...">>)
          /\ pc' = "hash_to"
          /\ UNCHANGED <<result, emitted, worker>>
     ELSE /\ Ends(Failed("scan_folder", "Invalid folder path"))
          /\ pc' = "failed"
          /\ UNCHANGED <<total_files, status_updated>>
  /\ UNCHANGED <<toTree, fromTree, toSnap, fromSnap, plan, zip, history, setting,
                 changes, progress_updated>>

\* FileProcessor.run with operation "scan_folder" on the target folder:
\* the hashing walk and the terminal signal.
ScanTo ==
  /\ pc = "hash_to" /\ worker = "running"
  /\ LET r == scan_folder(toTree, unreadable, total_files)
     IN  /\ toSnap' = r.files
         /\ progress_updated' = progress_updated \o r.progress
         /\ status_updated' = status_updated \o r.status
         /\ Ends(Finished("scan_folder", [files |-> r.files]))
  /\ pc' = "scan_from"
  /\ UNCHANGED <<toTree, fromTree, fromSnap, plan, zip, history, setting, changes,
                 total_files>>

CountFrom ==
  /\ pc = "scan_from" /\ worker = "running"
  /\ IF fromTree.root
     THEN /\ total_files' = CountFiles(fromTree)
          /\ status_updated' = Append(status_updated, <<"Scanning files...">>)
          /\ pc' = "hash_from"
          /\ UNCHANGED <<result, emitted, worker>>
     ELSE /\ Ends(Failed("scan_folder", "Invalid folder path"))
          /\ pc' = "failed"
          /\ UNCHANGED <<total_files, status_updated>>
  /\ UNCHANGED <<toTree, fromTree, toSnap, fromSnap, plan, zip, history, setting,
                 changes, progress_updated>>

\* FileProcessor.run with operation "scan_folder" on the current folder.
ScanFrom ==
  /\ pc = "hash_from" /\ worker = "running"
  /\ LET r == scan_folder(fromTree, unreadable, total_files)
     IN  /\ fromSnap' = r.files
         /\ progress_updated' = progress_updated \o r.progress
         /\ status_updated' = status_updated \o r.status
         /\ Ends(Finished("scan_folder", [files |-> r.files]))
  /\ pc' = "compare"
  /\ UNCHANGED <<toTree, fromTree, toSnap, plan, zip, history, setting, changes,
                 total_files>>

\* Another program adds a file to the folder, or removes one, between the
\* two walks of scan_folder.
FileAdded ==
  /\ pc = "hash_to" /\ changes < MaxChanges
  /\ \E p \in TreePaths \ DOMAIN toTree.files, c \in Contents :
       /\ Consistent(DOMAIN toTree.files \cup {p})
       /\ ~IsDir(toTree, p)
       /\ toTree' = [toTree EXCEPT
                       !.dirs = @ \cup Ancestors(p),
                       !.files = [q \in DOMAIN @ \cup {p} |-> IF q = p THEN c ELSE @[q]]]
  /\ changes' = changes + 1
  /\ UNCHANGED <<fromTree, toSnap, fromSnap, plan, zip, result, pc, history, setting,
                 total_files, worker, emitted, progress_updated, status_updated>>

FileRemoved ==
  /\ pc = "hash_to" /\ changes < MaxChanges
  /\ \E p \in DOMAIN toTree.files :
       toTree' = [toTree EXCEPT !.files = Restrict(@, DOMAIN @ \ {p})]
  /\ changes' = changes + 1
  /\ UNCHANGED <<fromTree, toSnap, fromSnap, plan, zip, result, pc, history, setting,
                 total_files, worker, emitted, progress_updated, status_updated>>

\* ------------------------------------------------------ compare_versions
\* {item["fileName"]: item["hash"] for item in files}: the keys of the dict
\* in insertion order (the first occurrence of each path).
RECURSIVE DictKeys(_)
DictKeys(snap) ==
  IF snap = <<>> THEN <<>>
  ELSE LET front == DictKeys(SubSeq(snap, 1, Len(snap) - 1))
           k == snap[Len(snap)].fileName
       IN  IF k \in SeqRange(front) THEN front ELSE Append(front, k)

\* The value the dict holds for a key: the one of its last occurrence.
DictGet(snap, k) ==
  LET last == CHOOSE i \in 1..Len(snap) :
                /\ snap[i].fileName = k
                /\ \A j \in (i + 1)..Len(snap) : snap[j].fileName # k
  IN  snap[last].hash

DictHas(snap, k) == \E i \in 1..Len(snap) : snap[i].fileName = k

\* NeedsCopy with a fault: the comparison of the two hashes is left out.
NeedsCopyNoHash(to, from, k) == ~DictHas(from, k)

\* The test of line 102: the file is missing or has a different hash.
NeedsCopy(to, from, k) == ~DictHas(from, k) \/ DictGet(from, k) # DictGet(to, k)

\* NeedsMove with a fault: the lookup in the target dict is left out.
NeedsMoveAlways(to, k) == TRUE

\* The test of line 110: the file exists in from but not in to.
NeedsMove(to, k) == ~DictHas(to, k)

RECURSIVE CopyEntries(_, _, _)
CopyEntries(keys, to, from) ==
  IF keys = <<>> THEN <<>>
  ELSE LET k == Head(keys)
           rest == CopyEntries(Tail(keys), to, from)
       IN  IF NeedsCopy(to, from, k)
           THEN <<[filename |-> k, status |-> "copy"]>> \o rest
           ELSE rest

RECURSIVE MoveEntries(_, _)
MoveEntries(keys, to) ==
  IF keys = <<>> THEN <<>>
  ELSE LET k == Head(keys)
           rest == MoveEntries(Tail(keys), to)
       IN  IF NeedsMove(to, k)
           THEN <<[filename |-> k, status |-> "move"]>> \o rest
           ELSE rest

\* compare_versions with a fault: the loop of lines 109-114 runs before the
\* loop of lines 101-106.
MovesFirst(to, from) ==
  MoveEntries(DictKeys(from), to) \o CopyEntries(DictKeys(to), to, from)

compare_versions(to, from) ==
  CopyEntries(DictKeys(to), to, from) \o MoveEntries(DictKeys(from), to)

\* FileProcessor.run with operation "compare_versions".
Compare ==
  /\ pc = "compare" /\ worker = "running"
  /\ plan' = compare_versions(toSnap, fromSnap)
  /\ Ends(Finished("compare_versions", [convert_data |-> plan']))
  /\ pc' = "zip"
  /\ UNCHANGED <<toTree, fromTree, toSnap, fromSnap, zip, history, setting, changes,
                 total_files, progress_updated, status_updated>>

\* ------------------------------------------------------------ create_zip
\* The archive file: absent, unreadable as a ZIP, or a ZIP with its entries
\* in the order they were written.
NoZip == [state |-> "absent", entries |-> <<>>]
CorruptZip == [state |-> "corrupt", entries |-> <<>>]
ZipOf(entries) == [state |-> "ok", entries |-> entries]

\* zip_path None: no path.
NoneValue == <<>>
ZipPath == "version_update.zip"

\* Line 128: os.path.join(os.path.dirname(to_folder), "version_update.zip").
\* os.path.dirname of a file-system root is that root.
ZipLocation(folder) == Append(Dirname(folder), ZipPath)

\* The archive as a file of a tree: its bytes are no content of Contents.
ZipBytes == 0

\* Line 130: zipfile.ZipFile(zip_path, 'w') creates the archive file.  When
\* zip_path lies below to_folder the file is one of the target tree's.
WriteZipFile(t, folder) ==
  LET at == ZipLocation(folder)
      rel == SubSeq(at, Len(folder) + 1, Len(at))
  IN  IF IsPrefix(folder, at)
      THEN [t EXCEPT !.files = [q \in DOMAIN @ \cup {rel} |->
                                  IF q = rel THEN ZipBytes ELSE @[q]]]
      ELSE t

EntryNames(z) == {z.entries[i].name : i \in 1..Len(z.entries)}

\* WithStatus with a fault: the filter on the status is left out.
WithAnyStatus(entries, status) == entries

\* Line 123: the entries with status "copy", in plan order.
RECURSIVE WithStatus(_, _)
WithStatus(entries, status) ==
  IF entries = <<>> THEN <<>>
  ELSE (IF Head(entries).status = status THEN <<Head(entries)>> ELSE <<>>)
         \o WithStatus(Tail(entries), status)

\* ZipEntries with a fault: the loop ends at the first listed path that
\* does not exist.
RECURSIVE ZipEntriesUntilMissing(_, _)
ZipEntriesUntilMissing(t, items) ==
  IF items = <<>> THEN <<>>
  ELSE LET p == Head(items).filename
           rest == ZipEntriesUntilMissing(t, Tail(items))
       IN  IF IsFile(t, p)
           THEN <<[name |-> p, kind |-> "file", data |-> t.files[p]]>> \o rest
           ELSE IF IsDir(t, p)
           THEN <<[name |-> p, kind |-> "dir", data |-> 0]>> \o rest
           ELSE <<>>

\* Lines 131-134: zipf.write for each listed path that exists.  A regular
\* file is stored with its bytes, a directory as a directory entry.
RECURSIVE ZipEntries(_, _)
ZipEntries(t, items) ==
  IF items = <<>> THEN <<>>
  ELSE LET p == Head(items).filename
           rest == ZipEntries(t, Tail(items))
       IN  IF IsFile(t, p)
           THEN <<[name |-> p, kind |-> "file", data |-> t.files[p]]>> \o rest
           ELSE IF IsDir(t, p)
           THEN <<[name |-> p, kind |-> "dir", data |-> 0]>> \o rest
           ELSE rest

\* NothingToZip with a fault: the early return is never taken.
NeverNothingToZip(files_to_zip) == FALSE

\* Line 125: nothing to package.
NothingToZip(files_to_zip) == files_to_zip = <<>>

\* Lines 136-138: what create_zip emits for each listed item.
ZipProgress(items) == [i \in 1..Len(items) |-> Percent(i, Len(items))]
ZipStatus(items) == [i \in 1..Len(items) |-> <<"Adding to ZIP", items[i].filename>>]

\* FileProcessor.run with operation "create_zip".
CreateZip ==
  /\ pc = "zip" /\ worker = "running"
  /\ LET files_to_zip == WithStatus(plan, "copy")
     IN  IF NothingToZip(files_to_zip)
         THEN /\ zip' = zip
              /\ toTree' = toTree
              /\ UNCHANGED <<progress_updated, status_updated>>
              /\ Ends(Finished("create_zip",
                               [zip_path |-> NoneValue, message |-> "No files to zip"]))
         ELSE /\ zip' = ZipOf(ZipEntries(toTree, files_to_zip))
              /\ toTree' = WriteZipFile(toTree, toFolder)
              /\ progress_updated' = progress_updated \o ZipProgress(files_to_zip)
              /\ status_updated' = status_updated \o ZipStatus(files_to_zip)
              /\ Ends(Finished("create_zip", [zip_path |-> ZipLocation(toFolder)]))
  /\ pc' = "equalize"
  /\ UNCHANGED <<fromTree, toSnap, fromSnap, plan, history, setting, changes, total_files>>

\* ----------------------------------------------------- equalize_versions
SetFile(t, p, c) ==
  [t EXCEPT !.root = TRUE,
            !.dirs = @ \cup Ancestors(p),
            !.files = [q \in DOMAIN @ \cup {p} |-> IF q = p THEN c ELSE @[q]]]

\* ZipFile._extract_member: creates the missing parent directories, then
\* writes the file (or makes the directory).  Raises when a parent is a
\* regular file, or when the target is a directory (a file, for a
\* directory entry).
ExtractMember(t, e) ==
  IF \E q \in Ancestors(e.name) : IsFile(t, q) THEN Raise(t)
  ELSE IF e.kind = "file"
  THEN IF IsDir(t, e.name) THEN Raise(t) ELSE Ok(SetFile(t, e.name, e.data))
  ELSE IF IsFile(t, e.name) THEN Raise(t) ELSE MakeDirs(t, e.name)

\* zipf.extractall(from_folder): the members in archive order; the first
\* failure ends the extraction and leaves what was extracted before it.
RECURSIVE ExtractAll(_, _)
ExtractAll(t, entries) ==
  IF entries = <<>> THEN Ok(t)
  ELSE LET r == ExtractMember(t, Head(entries))
       IN  IF r.ok THEN ExtractAll(r.tree, Tail(entries)) ELSE r

Reprefix(p, src, dst) == dst \o SubSeq(p, Len(src) + 1, Len(p))

\* os.rename(src, dst) of a regular file: replaces dst when it is a file.
RenameFile(t, src, dst) ==
  [t EXCEPT !.files = [q \in (DOMAIN @ \ {src}) \cup {dst} |->
                         IF q = dst THEN @[src] ELSE @[q]]]

\* os.rename(src, dst) of a directory onto a path that does not exist.
RenameDir(t, src, dst) ==
  LET movedFiles == {q \in DOMAIN t.files : IsPrefix(src, q)}
      movedDirs == {q \in t.dirs : IsPrefix(src, q)}
      newFiles == {Reprefix(q, src, dst) : q \in movedFiles}
  IN  [t EXCEPT !.files = [q \in (DOMAIN @ \ movedFiles) \cup newFiles |->
                             IF q \in newFiles
                             THEN @[src \o SubSeq(q, Len(dst) + 1, Len(q))]
                             ELSE @[q]],
                !.dirs = (@ \ movedDirs) \cup {Reprefix(q, src, dst) : q \in movedDirs}]

\* shutil.move(src, dst): into dst when dst is a directory (raising when
\* that name is taken there), else onto dst.
ShutilMove(t, src, dst) ==
  LET real_dst == IF IsDir(t, dst) THEN Append(dst, Basename(src)) ELSE dst
  IN  IF IsDir(t, dst) /\ Exists(t, real_dst) THEN Raise(t)
      ELSE IF IsFile(t, src) THEN Ok(RenameFile(t, src, real_dst))
      ELSE IF IsPrefix(src, real_dst) \/ Exists(t, real_dst) THEN Raise(t)
      ELSE Ok(RenameDir(t, src, real_dst))

\* Lines 159-164 for one "move" entry whose source exists.
QuarantineOne(t, p) ==
  LET dest_path == <<QuarantineDir>> \o p
      made == MakeDirs(t, Dirname(dest_path))
  IN  IF made.ok THEN ShutilMove(made.tree, p, dest_path) ELSE made

\* Lines 156-164: the loop over convert_data.  The result carries the tree,
\* whether an exception was raised, and moved_files.
RECURSIVE MoveLoop(_, _, _)
MoveLoop(t, items, moved) ==
  IF items = <<>> THEN [ok |-> TRUE, tree |-> t, moved |-> moved]
  ELSE LET p == Head(items).filename
       IN  IF Head(items).status = "move" /\ Exists(t, p)
           THEN LET r == QuarantineOne(t, p)
                IN  IF r.ok THEN MoveLoop(r.tree, Tail(items), Append(moved, p))
                    ELSE [ok |-> FALSE, tree |-> r.tree, moved |-> moved]
           ELSE MoveLoop(t, Tail(items), moved)

\* ExtractStep with a fault: the archive is opened but nothing is extracted.
ExtractNothing(t, z) == IF z.state = "ok" THEN Ok(t) ELSE Raise(t)

\* Lines 149-150: opening the archive and extracting it.
ExtractStep(t, z) == IF z.state = "ok" THEN ExtractAll(t, z.entries) ELSE Raise(t)

\* Lines 153-154.
MakeQuarantine(t) == MakeDirs(t, <<QuarantineDir>>)

\* equalize_versions as a whole: the tree it leaves, the terminal
\* notification, and the sub-steps it reached.
equalize_versions(items, z, t) ==
  LET x == ExtractStep(t, z)
      d == MakeQuarantine(x.tree)
      m == MoveLoop(d.tree, items, <<>>)
  IN  IF ~x.ok
      THEN [tree |-> x.tree, reached |-> {"extract"},
            result |-> Failed("equalize", "extraction failed")]
      ELSE IF ~d.ok
      THEN [tree |-> d.tree, reached |-> {"extract", "quarantine"},
            result |-> Failed("equalize", "cannot create the quarantine directory")]
      ELSE IF ~m.ok
      THEN [tree |-> m.tree, reached |-> {"extract", "quarantine"},
            result |-> Failed("equalize", "move failed")]
      ELSE [tree |-> m.tree, reached |-> {"extract", "quarantine"},
            result |-> Finished("equalize", [moved_files |-> m.moved])]

\* FileProcessor.run with operation "equalize".
Equalize ==
  /\ pc \in {"equalize", "equalized"} /\ worker = "running"
  /\ runs < MaxRuns
  /\ LET r == equalize_versions(plan, zip, fromTree)
     IN  /\ fromTree' = r.tree
         /\ Ends(r.result)
         /\ steps' = r.reached
         /\ firstRun' = IF runs = 0 THEN [tree |-> r.tree, kind |-> r.result.kind]
                        ELSE firstRun
  /\ preTree' = fromTree
  /\ runs' = runs + 1
  /\ pc' = "equalized"
  /\ UNCHANGED <<toTree, toSnap, fromSnap, plan, zip, setting, changes, total_files,
                 progress_updated, status_updated>>

\* -------------------------------------------------------- specifications
RECURSIVE Perms(_)
Perms(S) ==
  IF S = {} THEN {<<>>}
  ELSE UNION {{<<x>> \o s : s \in Perms(S \ {x})} : x \in S}

PlanPaths == {<<"a">>, <<"a", "b">>, <<QuarantineDir, "a">>}

RECURSIVE InOrder(_, _)
InOrder(S, order) ==
  IF order = <<>> THEN <<>>
  ELSE (IF Head(order) \in S THEN <<Head(order)>> ELSE <<>>) \o InOrder(S, Tail(order))

PlanOrder == << <<"a">>, <<"a", "b">>, <<QuarantineDir, "a">> >>

Tagged(paths, status) == [i \in 1..Len(paths) |-> [filename |-> paths[i], status |-> status]]

\* The plans compare_versions can produce over PlanPaths: no path twice,
\* the "copy" entries first, the "move" entries after them in any order.
Plans ==
  UNION {{Tagged(InOrder(C, PlanOrder), "copy") \o Tagged(m, "move") :
            m \in Perms(M), C \in SUBSET (PlanPaths \ M)} : M \in SUBSET PlanPaths}

NoHistory == [tree |-> MissingTree, kind |-> "none"]

Quiet ==
  /\ result = NoResult
  /\ runs = 0
  /\ steps = {}
  /\ firstRun = NoHistory
  /\ preTree = fromTree
  /\ changes = 0
  /\ total_files = 0
  /\ worker = "idle"
  /\ emitted = <<>>
  /\ progress_updated = <<>>
  /\ status_updated = <<>>

\* to_folder is a folder below the root of its file system, or that root
\* itself (a drive that holds the target version).
SomeFolder == <<"to">>
Folders == {SomeFolder, <<>>}

EmptyTree == TreeOf(EmptyFiles)

\* compare_versions on its own, on any two snapshot files.
InitDiff ==
  /\ toSnap \in SeqsUpTo(FileRecords, MaxSnapLen)
  /\ fromSnap \in SeqsUpTo(FileRecords, MaxSnapLen)
  /\ toTree = EmptyTree /\ fromTree = EmptyTree
  /\ plan = <<>> /\ zip = NoZip
  /\ pc = "compare"
  /\ toFolder = SomeFolder /\ unreadable = {}
  /\ Quiet

NextDiff == StartAt({"compare"}) \/ Compare

SpecDiff == InitDiff /\ [][NextDiff]_vars

\* create_zip on its own, on any plan and target tree.
InitPack ==
  /\ plan \in Plans
  /\ toTree \in Trees
  /\ fromTree = EmptyTree
  /\ toSnap = <<>> /\ fromSnap = <<>>
  /\ zip = NoZip
  /\ pc = "zip"
  /\ toFolder \in Folders
  /\ toFolder = <<>> => toTree.root
  /\ unreadable = {}
  /\ Quiet

NextPack == StartAt({"zip"}) \/ CreateZip

SpecPack == InitPack /\ [][NextPack]_vars

ArchiveOrder == << <<"a">>, <<QuarantineDir, "a">> >>

FileEntries(f, names) ==
  [i \in 1..Len(names) |-> [name |-> names[i], kind |-> "file", data |-> f[names[i]]]]

\* The archive files equalize_versions may be given: none, one that is no
\* ZIP, and the ZIPs holding files of ArchiveOrder.
Archives ==
  {ZipOf(FileEntries(f, InOrder(DOMAIN f, ArchiveOrder))) :
     f \in UNION {[S -> Contents] : S \in SUBSET SeqRange(ArchiveOrder)}}
    \cup {NoZip, CorruptZip}

\* equalize_versions on its own, on any plan, archive and current tree.
InitEq ==
  /\ plan \in Plans
  /\ zip \in Archives
  /\ fromTree \in Trees
  /\ toTree = EmptyTree
  /\ toSnap = <<>> /\ fromSnap = <<>>
  /\ pc = "equalize"
  /\ toFolder = SomeFolder /\ unreadable = {}
  /\ Quiet

NextEq == StartAt({"equalize", "equalized"}) \/ Equalize

SpecEq == InitEq /\ [][NextEq]_vars

\* Between two runs of equalize_versions the user puts a file back at a
\* path the last run moved away.
FileRecreated ==
  /\ pc = "equalized" /\ worker = "idle" /\ changes < MaxChanges
  /\ result.kind = "finished"
  /\ \E p \in SeqRange(result.value.moved_files), c \in Contents :
       /\ ~Exists(fromTree, p)
       /\ Consistent(DOMAIN fromTree.files \cup {p})
       /\ fromTree' = [fromTree EXCEPT
                         !.dirs = @ \cup Ancestors(p),
                         !.files = [q \in DOMAIN @ \cup {p} |-> IF q = p THEN c ELSE @[q]]]
  /\ changes' = changes + 1
  /\ UNCHANGED <<toTree, toSnap, fromSnap, plan, zip, result, pc, history, setting,
                 total_files, worker, emitted, progress_updated, status_updated>>

\* Repeated equalize_versions on a current tree that has no quarantine
\* folder yet, with an archive that holds no entry below that folder: every
\* file below the quarantine folder was moved there by a run.
InitRepeat ==
  /\ InitEq
  /\ \A p \in DOMAIN fromTree.files \cup fromTree.dirs : p[1] # QuarantineDir
  /\ \A p \in EntryNames(zip) : p[1] # QuarantineDir

NextRepeat == StartAt({"equalize", "equalized"}) \/ Equalize \/ FileRecreated

SpecRepeat == InitRepeat /\ [][NextRepeat]_vars

UnreadablePaths == {<<"a">>, <<"a", "b">>}

\* scan_folder on its own, on any folder, with files that cannot be opened
\* and with files coming and going between its two walks.
InitScan ==
  /\ toTree \in Trees
  /\ unreadable \in SUBSET UnreadablePaths
  /\ fromTree = EmptyTree
  /\ toSnap = <<>> /\ fromSnap = <<>>
  /\ plan = <<>> /\ zip = NoZip
  /\ pc = "scan_to"
  /\ toFolder = SomeFolder
  /\ Quiet

NextScan == StartAt({"scan_to"}) \/ CountTo \/ FileAdded \/ FileRemoved \/ ScanTo

SpecScan == InitScan /\ [][NextScan]_vars

\* The whole pipeline on any two trees: scan both, compare, package,
\* equalize (up to MaxRuns times), with no file changing in between.  The
\* archive file the user selects for equalize_versions is the one
\* create_zip wrote; before create_zip there is none, or an empty ZIP.
Init ==
  /\ toTree \in Trees
  /\ fromTree \in Trees
  /\ toSnap = <<>> /\ fromSnap = <<>>
  /\ plan = <<>>
  /\ zip \in {NoZip, ZipOf(<<>>)}
  /\ pc = "scan_to"
  /\ toFolder = SomeFolder /\ unreadable = {}
  /\ Quiet

\* The steps of the worker thread.
Work == CountTo \/ ScanTo \/ CountFrom \/ ScanFrom \/ Compare \/ CreateZip \/ Equalize

Next == Start \/ Work

Spec == Init /\ [][Next]_vars

\* The pipeline on the trees that hold at most a file a and a file in the
\* quarantine folder; a started QThread runs until run() returns.
LivePaths == {<<"a">>, <<QuarantineDir, "a">>}
LiveTrees == {t \in Trees : DOMAIN t.files \subseteq LivePaths}

InitLive ==
  /\ Init
  /\ toTree \in LiveTrees
  /\ fromTree \in LiveTrees

LiveSpec == InitLive /\ [][Next]_vars /\ WF_vars(Work)

\* ---------------------------------------------------------------- claims
PlanCount(p, status) ==
  Cardinality({i \in 1..Len(plan) : plan[i].filename = p /\ plan[i].status = status})

HashesOf(snap, p) == {snap[i].hash : i \in {j \in 1..Len(snap) : snap[j].fileName = p}}

After(op) == result.kind # "none" /\ result.op = op

Succeeded(op) == result.kind = "finished" /\ result.op = op

PlanPathsOf(status) == {plan[i].filename : i \in {j \in 1..Len(plan) : plan[j].status = status}}

\* C1: for two snapshots with unique paths, the plan of compare_versions
\* holds exactly once as "copy" each target path that is absent from the
\* current snapshot or has another hash there, exactly once as "move" each
\* current path absent from the target snapshot, and no other path.
C1_CompareComplete ==
  (Succeeded("compare_versions") /\ UniquePaths(toSnap) /\ UniquePaths(fromSnap)) =>
    \A p \in SnapPaths \cup PlanPathsOf("copy") \cup PlanPathsOf("move") :
      LET inTo == HashesOf(toSnap, p) # {}
          inFrom == HashesOf(fromSnap, p) # {}
      IN  /\ PlanCount(p, "copy") =
               (IF inTo /\ (~inFrom \/ HashesOf(toSnap, p) # HashesOf(fromSnap, p))
                THEN 1 ELSE 0)
          /\ PlanCount(p, "move") = (IF inFrom /\ ~inTo THEN 1 ELSE 0)

\* A compare of unique-path snapshots where one path is copied because its
\* hash differs, and another path present in both is left out of the plan.
C1_Witness ==
  /\ Succeeded("compare_versions") /\ UniquePaths(toSnap) /\ UniquePaths(fromSnap)
  /\ \E p \in PlanPathsOf("copy") : HashesOf(fromSnap, p) # {}
  /\ \E p \in SnapPaths :
       /\ HashesOf(toSnap, p) # {} /\ HashesOf(fromSnap, p) # {}
       /\ p \notin PlanPathsOf("copy")

\* The files of a tree that lie outside the quarantine subtree.
OutsideQuarantine(t) ==
  Restrict(t.files, {p \in DOMAIN t.files : p[1] # QuarantineDir})

Quarantined(p) == <<QuarantineDir>> \o p

\* C3 (as stated): after a successful equalize_versions, every file that
\* was in the current tree before the call and has status "move" in the
\* plan is at ExtraFiles_VersionEqualizer/<path> with its content unchanged,
\* and is gone from its original path.
C3_MovedFilesKept ==
  (Succeeded("equalize") /\ pc = "equalized" /\ runs = 1) =>
    \A p \in PlanPathsOf("move") :
      IsFile(preTree, p) =>
        /\ IsFile(fromTree, Quarantined(p))
        /\ fromTree.files[Quarantined(p)] = preTree.files[p]
        /\ ~Exists(fromTree, p)

\* C4 (as stated): a second equalize_versions with the same plan and
\* archive, after a first one that succeeded, leaves the current tree as
\* the first one left it and reports success.
C4_EqualizeIdempotent ==
  (After("equalize") /\ runs = 2 /\ firstRun.kind = "finished") =>
    /\ fromTree = firstRun.tree
    /\ result.kind = "finished"

\* C5 (as stated): with identical trees (an empty plan, nothing packaged),
\* equalize_versions succeeds, changes no file and creates no
\* ExtraFiles_VersionEqualizer directory.
C5_IdenticalTreesNoOp ==
  (After("equalize") /\ pc = "equalized" /\ runs = 1
     /\ plan = <<>> /\ toTree = preTree) =>
    /\ result.kind = "finished"
    /\ fromTree.files = preTree.files
    /\ ~Exists(fromTree, <<QuarantineDir>>)

\* C6 (as stated): when the plan lists a "copy" path that is no entry of the
\* archive, equalize_versions on an existing current tree reports it: the
\* run does not fail for it, and its result holds more than moved_files.
C6_MissingCopyReported ==
  (After("equalize") /\ preTree.root /\ zip.state = "ok"
     /\ PlanPathsOf("copy") \ EntryNames(zip) # {}) =>
    \/ result.kind = "error"
    \/ DOMAIN result.value # {"moved_files"}

\* C7 (as stated): an equalize_versions run whose plan holds a "move" path
\* that exists in the current tree attempts both sub-steps, the extraction
\* and the quarantine moves, whichever of them fails.
C7_BothStepsAttempted ==
  (After("equalize") /\ \E p \in PlanPathsOf("move") : Exists(preTree, p)) =>
    steps = {"extract", "quarantine"}

\* C8: every entry of the archive create_zip wrote is a path with status
\* "copy" in the plan it was given.
C8_ArchiveWithinCopySet ==
  Succeeded("create_zip") => EntryNames(zip) \subseteq PlanPathsOf("copy")

\* create_zip wrote an archive from a plan that also holds a "move" path
\* which exists in the target tree.
C8_Witness ==
  /\ Succeeded("create_zip")
  /\ zip.state = "ok" /\ zip.entries # <<>>
  /\ \E p \in PlanPathsOf("move") : Exists(toTree, p)

\* C9: when the plan has no "copy" entry, create_zip returns zip_path None
\* with a message and writes no archive file.
C9_NothingToPackage ==
  (After("create_zip") /\ PlanPathsOf("copy") = {}) =>
    /\ result.kind = "finished"
    /\ result.value.zip_path = NoneValue
    /\ "message" \in DOMAIN result.value
    /\ zip = NoZip

\* create_zip ran on a plan of "move" entries only, over files the target
\* tree holds.
C9_Witness ==
  /\ After("create_zip")
  /\ plan # <<>> /\ PlanPathsOf("copy") = {}
  /\ \E p \in PlanPathsOf("move") : IsFile(toTree, p)

\* C10 (as stated): when a snapshot given to compare_versions holds a path
\* twice, compare_versions ends with an error and returns no plan.
C10_DuplicatePathRejected ==
  (After("compare_versions") /\ (~UniquePaths(toSnap) \/ ~UniquePaths(fromSnap))) =>
    result.kind = "error"

\* C11: when scan_folder walks a tree in which some files cannot be opened,
\* it still ends with finished_signal, and the snapshot it returns holds
\* exactly one record for every file of the tree that can be opened, with
\* the MD5 of its content, and no record for a file that cannot.
C11_UnreadableSkipped ==
  /\ pc = "failed" => ~toTree.root
  /\ pc = "scan_from" =>
       /\ result = Finished("scan_folder", [files |-> toSnap])
       /\ UniquePaths(toSnap)
       /\ SeqRange(toSnap) =
            {[fileName |-> p, hash |-> Md5Hex(toTree.files[p])] :
               p \in {q \in DOMAIN toTree.files : ~(q \in unreadable)}}

\* scan_folder ended on a tree with a file that cannot be opened and one
\* that can.
C11_Witness ==
  /\ pc = "scan_from"
  /\ \E p \in DOMAIN toTree.files : p \in unreadable
  /\ \E p \in DOMAIN toTree.files : ~(p \in unreadable)

TerminalSignals == {"finished_signal", "error_signal"}

\* C12: every started run of FileProcessor (scan_folder, compare_versions,
\* create_zip or equalize) eventually ends having emitted exactly one of
\* finished_signal and error_signal; while it runs it has emitted neither,
\* and it never emits both.
C12_OneTerminalSignal ==
  /\ [](Len(emitted) <= 1)
  /\ [](worker = "running" => emitted = <<>>)
  /\ (worker = "running") ~>
       (worker = "idle" /\ Len(emitted) = 1 /\ emitted[1] \in TerminalSignals
          /\ (emitted[1] = "error_signal") = (result.kind = "error"))

\* A run that ended with error_signal and nothing else.
C12_Witness ==
  /\ worker = "idle"
  /\ emitted = <<"error_signal">>
  /\ result.kind = "error"

\* C13: for a snapshot S with unique paths, compare_versions with S as both
\* the target and the current snapshot returns an empty plan.
C13_SameSnapshotEmptyPlan ==
  (After("compare_versions") /\ toSnap = fromSnap /\ UniquePaths(toSnap)) =>
    /\ result = Finished("compare_versions", [convert_data |-> <<>>])
    /\ plan = <<>>

\* compare_versions ran on twice the same snapshot of MaxSnapLen files.
C13_Witness ==
  /\ After("compare_versions")
  /\ toSnap = fromSnap /\ UniquePaths(toSnap)
  /\ Len(toSnap) = MaxSnapLen

\* C14 (as stated), for equalize_versions: when the root directory given to
\* the operation does not exist, the operation ends with an error and
\* creates or moves no file or directory.
C14_MissingRootRejected ==
  (After("equalize") /\ runs = 1 /\ ~preTree.root) =>
    /\ result.kind = "error"
    /\ fromTree = preTree

\* C15 (as stated): create_zip leaves the target tree as it was, files and
\* content, and the archive file it writes lies outside the target root.
C15_TargetTreeUntouched ==
  [][CreateZip =>
       /\ toTree' = toTree
       /\ zip' # zip => ~IsPrefix(toFolder, ZipLocation(toFolder))]_vars

\* C16 (as stated): every value emitted on progress_updated is an integer
\* from 0 to 100, also when files are added to or removed from the tree
\* between the counting walk and the hashing walk of scan_folder.
C16_ProgressWithinPercent ==
  \A i \in 1..Len(progress_updated) : progress_updated[i] \in 0..100

\* What the caller of a scan_folder run is told about the file p: a status
\* message that names it, or a field of the result besides "files".
ToldAbout(p) ==
  \/ \E i \in 1..Len(status_updated) :
       Len(status_updated[i]) = 2 /\ status_updated[i][2] = p
  \/ result.kind = "finished" /\ DOMAIN result.value # {"files"}

\* C17 (as stated): whenever scan_folder skips a file because it cannot be
\* read, the caller is told so through a status message or the result, not
\* only by the absence of the file's record.
C17_SkipReported ==
  pc = "scan_from" =>
    \A p \in DOMAIN toTree.files : p \in unreadable => ToldAbout(p)

\* C18: when the plan has "copy" paths, also ones that no longer exist
\* under the target root, create_zip ends with finished_signal and a
\* zip_path, and the archive holds exactly the "copy" paths that exist
\* under the target root, a file with the content it has in the target tree.
C18_MissingCopySkipped ==
  (After("create_zip") /\ PlanPathsOf("copy") # {}) =>
    /\ result = Finished("create_zip", [zip_path |-> ZipLocation(toFolder)])
    /\ zip.state = "ok"
    /\ EntryNames(zip) = {p \in PlanPathsOf("copy") : Exists(toTree, p)}
    /\ \A i \in 1..Len(zip.entries) :
         IsFile(toTree, zip.entries[i].name) =>
           /\ zip.entries[i].kind = "file"
           /\ zip.entries[i].data = toTree.files[zip.entries[i].name]

\* create_zip ran on a plan whose first "copy" path is missing from the
\* target tree and whose second is a file of it.
C18_Witness ==
  /\ After("create_zip")
  /\ Len(plan) >= 2
  /\ plan[1].status = "copy" /\ ~Exists(toTree, plan[1].filename)
  /\ plan[2].status = "copy" /\ IsFile(toTree, plan[2].filename)

\* C19 (as stated), for an archive without entries: when equalize_versions
\* succeeds, a path with status "move" that did not exist in the current
\* tree before the call was skipped, so every path of moved_files is a
\* "move" path that existed in the current tree before the call.
C19_MissingMoveSkipped ==
  (Succeeded("equalize") /\ runs = 1 /\ zip = ZipOf(<<>>)) =>
    SeqRange(result.value.moved_files) \subseteq
      {p \in PlanPathsOf("move") : Exists(preTree, p)}

\* The place of the first record of path p in a snapshot.
FirstIndex(snap, p) ==
  CHOOSE i \in 1..Len(snap) :
    /\ snap[i].fileName = p
    /\ \A j \in 1..(i - 1) : snap[j].fileName # p

\* C20: in the plan of compare_versions no "move" entry precedes a "copy"
\* entry, the "copy" entries are in the order in which their paths first
\* appear in the target snapshot, and the "move" entries in the order in
\* which their paths first appear in the current snapshot.
C20_PlanOrder ==
  After("compare_versions") =>
    \A i, j \in 1..Len(plan) : i < j =>
      /\ ~(plan[i].status = "move" /\ plan[j].status = "copy")
      /\ (plan[i].status = "copy" /\ plan[j].status = "copy") =>
           FirstIndex(toSnap, plan[i].filename) < FirstIndex(toSnap, plan[j].filename)
      /\ (plan[i].status = "move" /\ plan[j].status = "move") =>
           FirstIndex(fromSnap, plan[i].filename) < FirstIndex(fromSnap, plan[j].filename)

\* compare_versions returned "copy" b, "copy" a and a "move" entry, from a
\* target snapshot that lists b before a.
C20_Witness ==
  /\ After("compare_versions")
  /\ Len(plan) = 3
  /\ plan[1] = [filename |-> <<"b">>, status |-> "copy"]
  /\ plan[2] = [filename |-> <<"a">>, status |-> "copy"]
  /\ plan[3].status = "move"

\* The files of content c a tree holds below the quarantine folder.
QuarantineHolds(t, c) ==
  {p \in DOMAIN t.files : p[1] = QuarantineDir /\ t.files[p] = c}

\* C21 (as stated): no run of equalize_versions deletes or overwrites a
\* file that an earlier run moved below the quarantine folder, also when
\* files were put back at their original path in between: for every
\* content, the quarantine subtree holds after the run at least as many
\* files of that content as before it.
C21_QuarantineNeverLost ==
  After("equalize") =>
    \A c \in Contents :
      Cardinality(QuarantineHolds(fromTree, c)) >= Cardinality(QuarantineHolds(preTree, c))

\* C22 (as stated): equalize_versions leaves every file of the current tree
\* whose path is neither an entry of the archive nor a "move" path of the
\* plan at its path with its content.
C22_UnlistedFilesUntouched ==
  After("equalize") =>
    \A p \in DOMAIN preTree.files :
      (~(p \in EntryNames(zip)) /\ ~(p \in PlanPathsOf("move"))) =>
        /\ p \in DOMAIN fromTree.files
        /\ fromTree.files[p] = preTree.files[p]

\* C23 (as stated), for a target root that exists: whenever create_zip
\* returns a zip_path other than None, the archive at that path holds at
\* least one entry.
C23_NoEmptyArchiveReported ==
  (Succeeded("create_zip") /\ toTree.root /\ result.value.zip_path # NoneValue) =>
    /\ zip.state = "ok"
    /\ zip.entries # <<>>

====
